---- MODULE Spec2Model ----
(***************************************************************************)
(* Model of rmqtt/src/node.rs: the Node busy detector (sys_is_busy and     *)
(* _is_busy), the CPU load sampler (update_cpuload, cpuload), the          *)
(* NodeInfo aggregation (NodeInfo::add) and the facade (status, uptime,    *)
(* node_info, broker_info, to_json, to_uptime).                            *)
(*                                                                         *)
(* Number representation.  f32 values (load averages, thresholds, the      *)
(* percentage cpuload() returns) are fixed-point integers with Scale       *)
(* units per 1.0, so 3.20 is 320.  The i64 in Node.cpuload is a record     *)
(* [k, v]: k = "val" carries the integer v, k = "max" / "min" stand for    *)
(* i64::MAX / i64::MIN, which a saturating `as i64` cast of +inf / -inf    *)
(* produces and which do not fit the model checker's integers.             *)
(* Time is the value timestamp_millis() returns, counted in clock ticks.   *)
(* Atomic loads and stores are interleaved in program order, one per step. *)
(***************************************************************************)
EXTENDS Integers, FiniteSets, Sequences, TLC

\* ----------------------------------------------------------------- bounds
NThreads == 2
MaxCalls == 4
MaxTime == 4
MaxUpdates == 2
MaxFolds == 2

\* ------------------------------------------------------ program constants
Scale == 100
SleepTicks == 2
CpuScale == 10000

Threads == 1..NThreads
StartTime == 2
\* Node::new's id argument and the second chrono::Local::now() gave at node.rs:74
NodeId == 1
StartSecs == 100000
Intervals == {1, 2}
LoadPercents == {0, 40}
CpuCounts == {1, 2}
CpuPercents == {50, 90}

VARIABLES
  \* Node fields, node.rs:43-52
  id, start_time,
  max_busy_loadavg, max_busy_cpuloadavg, busy_update_interval,
  cpuload, cached_busy, cached_time,
  \* the value timestamp_millis() returns
  clock,
  \* per caller of sys_is_busy: position and locals
  pc, now, last_update, cpu_l, loadavg, load1, busy, ret,
  \* history of the sys_is_busy calls
  calls, cur, winComputes, winHits, busyHits, reads, conc,
  sampleAt, busyAt,
  \* which caller's recomputation stored cached_busy last (0: Node::new),
  \* whether the same recomputation stored cached_time, and per caller
  \* whether cached_busy still comes from the recomputation whose
  \* cached_time the caller loaded
  busyBy, paired, seenPaired,
  \* the update_cpuload task: position, locals and history
  upc, aggr, slept, updates, cpuBefore, cpuWrites, lastAggr,
  \* a NodeInfo accumulator and the snapshot folded into it
  acc, other, pre, folds,
  \* history of the folds: the accumulator the last two folds started from,
  \* the snapshots they folded in, and the Running counts folded so far
  base, window, runSum,
  \* the environment of the facade: the health probe's current answer,
  \* whether the platform sensors answer, and chrono::Local::now() in seconds
  probe, sensors, wall,
  \* status(): its last result, the result before it, the answer it was given
  status_r, prev_r, asked,
  \* the snapshot node_info / broker_info built last and its to_json value
  info, json,
  \* uptime(): the elapsed seconds it computed last and their rendering
  upSecs, upText

nodeCfg == <<id, start_time, max_busy_loadavg, max_busy_cpuloadavg, busy_update_interval>>
cache == <<cached_busy, cached_time>>
locals == <<pc, now, last_update, cpu_l, loadavg, load1, busy, ret>>
ghosts == <<calls, cur, winComputes, winHits, busyHits, reads, conc,
            sampleAt, busyAt>>
updVars == <<upc, aggr, slept, updates, cpuBefore, cpuWrites, lastAggr>>
infoVars == <<acc, other, pre, folds, base, window, runSum>>
pairVars == <<busyBy, paired, seenPaired>>
envVars == <<probe, sensors, wall>>
facadeVars == <<status_r, prev_r, asked, info, json, upSecs, upText>>
vars == <<nodeCfg, cpuload, cache, clock, locals, ghosts, updVars, infoVars,
          pairVars, envVars, facadeVars>>

\* --------------------------------------------------------------- i64 cell
I64(n) == [k |-> "val", v |-> n]
I64_MAX == [k |-> "max", v |-> 0]
I64_MIN == [k |-> "min", v |-> 0]

\* Node::new, node.rs:67-68: max_busy_loadavg * cpu_count / 100.0
normalized_loadavg(percent, cpu_count) == ((percent * Scale) * cpu_count) \div 100

\* Node::cpuload, node.rs:239-242: load as f32 / 100.0.  The result is an
\* f32; "max"/"min" keep their sign and magnitude class.
Node_cpuload == IF cpuload.k = "val"
                THEN [k |-> "val", v |-> (cpuload.v * Scale) \div 100]
                ELSE cpuload

\* f32 comparison x > y for a cpuload() result x and a finite threshold y.
F32Gt(x, y) == \/ x.k = "max"
               \/ x.k = "val" /\ x.v > y

\* _is_busy with non-strict comparisons.
_is_busy_nonstrict(l1, cpu) ==
  l1 >= max_busy_loadavg \/ cpu.k = "max" \/ (cpu.k = "val" /\ cpu.v >= max_busy_cpuloadavg)

\* Node::_is_busy, node.rs:207/218, on the values it has read.
_is_busy(l1, cpu) == l1 > max_busy_loadavg \/ F32Gt(cpu, max_busy_cpuloadavg)

\* sys.load_average() outcomes: a failure or a reading of `one`.
LoadAvgReadings == {[ok |-> FALSE, one |-> 0]} \cup
                   {[ok |-> TRUE, one |-> v] : v \in {0, 80, 81}}

\* A failed load-average read counted as an overload.
load1_of_failure_high(la) == IF la.ok THEN la.one ELSE 100 * Scale

\* loadavg.as_ref().map(|l| l.one).unwrap_or_default(), node.rs:205
load1_of(la) == IF la.ok THEN la.one ELSE 0

\* ------------------------------------------------------------------ Init
\* The per-call locals and the history variables before any call.
InitCalls ==
  /\ clock = StartTime
  /\ pc = [t \in Threads |-> "idle"]
  /\ now = [t \in Threads |-> 0]
  /\ last_update = [t \in Threads |-> 0]
  /\ cpu_l = [t \in Threads |-> I64(0)]
  /\ loadavg = [t \in Threads |-> [ok |-> TRUE, one |-> 0]]
  /\ load1 = [t \in Threads |-> 0]
  /\ busy = [t \in Threads |-> FALSE]
  /\ ret = [t \in Threads |-> FALSE]
  /\ calls = 0
  /\ cur = [t \in Threads |-> FALSE]
  /\ winComputes = 0
  /\ winHits = {}
  /\ busyHits = {}
  /\ reads = [t \in Threads |-> 0]
  /\ conc = [t \in Threads |-> FALSE]
  /\ sampleAt = [t \in Threads |-> 0]
  /\ busyAt = 0
  /\ busyBy = 0
  /\ paired = TRUE
  /\ seenPaired = [t \in Threads |-> TRUE]

\* Node::new, node.rs:61-86
InitNode ==
  /\ id = NodeId
  /\ start_time = StartSecs
  /\ \E p \in LoadPercents, n \in CpuCounts :
        max_busy_loadavg = normalized_loadavg(p, n)
  /\ \E p \in CpuPercents : max_busy_cpuloadavg = p * Scale
  /\ busy_update_interval \in Intervals
  /\ cpuload = I64(0)
  /\ cached_busy = FALSE
  /\ cached_time = 0
  /\ InitCalls

\* ---------------------------------------------------------- sys_is_busy
\* node.rs:223  let now = timestamp_millis();
sys_is_busy_now(t) ==
  /\ pc[t] \in {"idle", "done"}
  /\ calls < MaxCalls
  /\ calls' = calls + 1
  /\ now' = [now EXCEPT ![t] = clock]
  /\ pc' = [pc EXCEPT ![t] = "load_time"]
  /\ reads' = [reads EXCEPT ![t] = 0]
  /\ conc' = [conc EXCEPT ![t] = FALSE]
  /\ UNCHANGED <<nodeCfg, envVars, facadeVars, pairVars, cpuload, cache, clock,
                 last_update, cpu_l, loadavg, load1, busy, ret, cur,
                 winComputes, winHits, busyHits, sampleAt, busyAt, updVars,
                 infoVars>>

\* The staleness test with the boundary counted as fresh.
within_interval_inclusive(n, last) == n - last <= busy_update_interval

\* node.rs:226  now - last_update < self.busy_update_interval.as_millis()
within_interval(n, last) == n - last < busy_update_interval

\* node.rs:224-226  last_update = cached_time.load(); the staleness test.
sys_is_busy_load_time(t) ==
  /\ pc[t] = "load_time"
  /\ last_update' = [last_update EXCEPT ![t] = cached_time]
  /\ cur' = [cur EXCEPT ![t] = TRUE]
  /\ pc' = [pc EXCEPT ![t] =
              IF within_interval(now[t], cached_time) THEN "hit" ELSE "miss"]
  /\ seenPaired' = [seenPaired EXCEPT ![t] = paired]
  /\ UNCHANGED <<nodeCfg, envVars, facadeVars, busyBy, paired, cpuload, cache,
                 clock, now, cpu_l, loadavg, load1, busy, ret, calls,
                 winComputes, winHits, busyHits, reads, conc, sampleAt, busyAt,
                 updVars, infoVars>>

\* A cache hit that also refreshes the cached timestamp.
sys_is_busy_hit_touch(t) ==
  /\ pc[t] = "hit"
  /\ ret' = [ret EXCEPT ![t] = cached_busy]
  /\ pc' = [pc EXCEPT ![t] = "done"]
  /\ cached_time' = now[t]
  /\ winHits' = IF cur[t] THEN winHits \cup {cached_busy} ELSE winHits
  /\ busyHits' = busyHits \cup {cached_busy}
  /\ UNCHANGED <<nodeCfg, envVars, facadeVars, pairVars, cpuload, cached_busy,
                 clock, now, last_update, cpu_l, loadavg, load1, busy, calls,
                 cur, winComputes, reads, conc, sampleAt, busyAt, updVars,
                 infoVars>>

\* node.rs:227  return self.cached_busy.load(Ordering::Relaxed);
sys_is_busy_hit(t) ==
  /\ pc[t] = "hit"
  /\ ret' = [ret EXCEPT ![t] = cached_busy]
  /\ pc' = [pc EXCEPT ![t] = "done"]
  /\ winHits' = IF cur[t] THEN winHits \cup {cached_busy} ELSE winHits
  /\ busyHits' = busyHits \cup {cached_busy}
  /\ UNCHANGED <<nodeCfg, envVars, facadeVars, pairVars, cpuload, cache, clock,
                 now, last_update, cpu_l, loadavg, load1, busy, calls, cur,
                 winComputes, reads, conc, sampleAt, busyAt, updVars,
                 infoVars>>

\* node.rs:230 -> 202  let cpuload = self.cpuload();
is_busy_load_cpu(t) ==
  /\ pc[t] = "miss"
  /\ cpu_l' = [cpu_l EXCEPT ![t] = Node_cpuload]
  /\ pc' = [pc EXCEPT ![t] = "sensor"]
  /\ UNCHANGED <<nodeCfg, envVars, facadeVars, pairVars, cpuload, cache, clock,
                 now, last_update, loadavg, load1, busy, ret, ghosts, updVars,
                 infoVars>>

\* node.rs:204-218  the load-average read and the comparison.
is_busy_sensor(t) ==
  /\ pc[t] = "sensor"
  /\ \E la \in LoadAvgReadings :
        /\ loadavg' = [loadavg EXCEPT ![t] = la]
        /\ load1' = [load1 EXCEPT ![t] = load1_of(la)]
        /\ busy' = [busy EXCEPT ![t] = _is_busy(load1_of(la), cpu_l[t])]
  /\ pc' = [pc EXCEPT ![t] = "store_busy"]
  /\ reads' = [reads EXCEPT ![t] = @ + 1]
  /\ winComputes' = IF cur[t] THEN winComputes + 1 ELSE winComputes
  /\ sampleAt' = [sampleAt EXCEPT ![t] = clock]
  /\ UNCHANGED <<nodeCfg, envVars, facadeVars, pairVars, cpuload, cache, clock,
                 now, last_update, cpu_l, ret, calls, cur, winHits, busyHits,
                 conc, busyAt, updVars, infoVars>>

\* Thread t stored into the cache while another thread was inside a call.
Disturbed(t) == [u \in Threads |->
                   IF u # t /\ pc[u] \notin {"idle", "done"} THEN TRUE ELSE conc[u]]

\* node.rs:232  self.cached_busy.store(busy, Ordering::Relaxed);
sys_is_busy_store_busy(t) ==
  /\ pc[t] = "store_busy"
  /\ cached_busy' = busy[t]
  /\ pc' = [pc EXCEPT ![t] = "store_time"]
  /\ busyHits' = {}
  /\ busyAt' = sampleAt[t]
  /\ conc' = Disturbed(t)
  /\ busyBy' = t
  /\ paired' = FALSE
  /\ seenPaired' = [u \in Threads |-> FALSE]
  /\ UNCHANGED <<nodeCfg, envVars, facadeVars, cpuload, cached_time, clock,
                 now, last_update, cpu_l, loadavg, load1, busy, ret, calls,
                 cur, winComputes, winHits, reads, sampleAt, updVars,
                 infoVars>>

\* A recomputation that returns without storing the timestamp.
sys_is_busy_store_time_skipped(t) ==
  /\ pc[t] = "store_time"
  /\ ret' = [ret EXCEPT ![t] = busy[t]]
  /\ pc' = [pc EXCEPT ![t] = "done"]
  /\ UNCHANGED <<nodeCfg, envVars, facadeVars, pairVars, cpuload, cache, clock,
                 now, last_update, cpu_l, loadavg, load1, busy, calls, cur,
                 winComputes, winHits, busyHits, reads, conc, sampleAt, busyAt,
                 updVars, infoVars>>

\* node.rs:233-235  self.cached_time.store(now, Ordering::Relaxed); busy
sys_is_busy_store_time(t) ==
  /\ pc[t] = "store_time"
  /\ cached_time' = now[t]
  /\ ret' = [ret EXCEPT ![t] = busy[t]]
  /\ pc' = [pc EXCEPT ![t] = "done"]
  /\ cur' = [u \in Threads |-> FALSE]
  /\ winComputes' = 0
  /\ winHits' = {}
  /\ conc' = Disturbed(t)
  /\ paired' = (busyBy = t)
  /\ UNCHANGED <<nodeCfg, envVars, facadeVars, busyBy, seenPaired, cpuload,
                 cached_busy, clock, now, last_update, cpu_l, loadavg, load1,
                 busy, calls, busyHits, reads, sampleAt, busyAt, updVars,
                 infoVars>>

\* Time passes: timestamp_millis() grows and a sleeping task's timer runs.
Tick ==
  /\ clock < MaxTime
  /\ clock' = clock + 1
  /\ slept' = IF upc = "sleep" /\ slept < SleepTicks THEN slept + 1 ELSE slept
  /\ UNCHANGED <<nodeCfg, envVars, facadeVars, pairVars, cpuload, cache,
                 locals, ghosts, upc, aggr, updates, cpuBefore, cpuWrites,
                 lastAggr, infoVars>>

\* ------------------------------------------------------- update_cpuload
\* sys.cpu_load_aggregate() / DelayedMeasurement::done() outcomes: the
\* CPULoad fields the platform hands back for the window.
CPULoad(u, n, s, i, d) == [user |-> u, nice |-> n, system |-> s, interrupt |-> i, idle |-> d]
CpuReadings == { CPULoad(0, 0, 0, 0, 0), CPULoad(1, 0, 0, 0, 1), CPULoad(1, 0, 0, 0, 2),
                 CPULoad(1, 1, 1, 1, 0), CPULoad(1, 0, 0, 0, -1), CPULoad(1, 0, 0, 0, -3) }
NoAggr == CPULoad(0, 0, 0, 0, 0)

\* Integer part of p / q, rounded toward zero as `as i64` does (q # 0).
TruncDiv(p, q) ==
  LET ap == IF p < 0 THEN -p ELSE p
      aq == IF q < 0 THEN -q ELSE q
      m == ap \div aq
  IN IF (p < 0) = (q < 0) THEN m ELSE -m

\* The ratio taken against the idle time instead of the total time.
cpuload_ratio_to_idle(aggregate1, aggregate2) ==
  LET idle == aggregate2 - aggregate1 IN
  IF idle = 0
  THEN IF aggregate1 = 0 THEN I64(0)
       ELSE IF aggregate1 > 0 THEN I64_MAX ELSE I64_MIN
  ELSE I64(TruncDiv(aggregate1 * CpuScale, idle))

\* node.rs:254-259: the value of the closure, cast by `cpuload as i64`
\* (node.rs:263).  The `if aggregate2 <= 0.0 { 1.0 } else { aggregate2 }`
\* expression is a statement whose value is dropped, so the division is by
\* aggregate2 itself: x/0.0 is +inf or -inf, 0.0/0.0 is NaN, and the cast
\* saturates (NaN casts to 0).
cpuload_ratio(aggregate1, aggregate2) ==
  IF aggregate2 = 0
  THEN IF aggregate1 = 0 THEN I64(0)
       ELSE IF aggregate1 > 0 THEN I64_MAX ELSE I64_MIN
  ELSE I64(TruncDiv(aggregate1 * CpuScale, aggregate2))

\* A failed measurement reported as full load instead of 0.
cpuload_of_failure_full(ok, a) ==
  IF ok
  THEN LET aggregate1 == a.user + a.nice + a.system + a.interrupt
           aggregate2 == aggregate1 + a.idle
       IN cpuload_ratio(aggregate1, aggregate2)
  ELSE I64(CpuScale)

\* node.rs:249-261
cpuload_of(ok, a) ==
  IF ok
  THEN LET aggregate1 == a.user + a.nice + a.system + a.interrupt
           aggregate2 == aggregate1 + a.idle
       IN cpuload_ratio(aggregate1, aggregate2)
  ELSE I64(0)

InitUpd ==
  /\ upc = "idle"
  /\ aggr = FALSE
  /\ slept = 0
  /\ updates = 0
  /\ cpuBefore = I64(0)
  /\ cpuWrites = 0
  /\ lastAggr = [ok |-> FALSE, a |-> NoAggr]

\* An invocation that clears the stored value before it measures.
update_cpuload_begin_clears ==
  /\ upc \in {"idle", "done", "abandoned"}
  /\ updates < MaxUpdates
  /\ updates' = updates + 1
  /\ aggr' \in BOOLEAN
  /\ slept' = 0
  /\ upc' = "sleep"
  /\ cpuBefore' = cpuload
  /\ cpuload' = I64(0)
  /\ cpuWrites' = 1
  /\ UNCHANGED <<nodeCfg, envVars, facadeVars, pairVars, cache, clock, locals,
                 ghosts, lastAggr, infoVars>>

\* node.rs:245-247: the first aggregate read (.ok()), then the sleep begins.
update_cpuload_begin ==
  /\ upc \in {"idle", "done", "abandoned"}
  /\ updates < MaxUpdates
  /\ updates' = updates + 1
  /\ aggr' \in BOOLEAN
  /\ slept' = 0
  /\ upc' = "sleep"
  /\ cpuBefore' = cpuload
  /\ cpuWrites' = 0
  /\ UNCHANGED <<nodeCfg, envVars, facadeVars, pairVars, cpuload, cache, clock,
                 locals, ghosts, lastAggr, infoVars>>

\* A final step that also invalidates the busy cache.
update_cpuload_finish_resets_cache ==
  /\ upc = "sleep"
  /\ slept >= SleepTicks
  /\ \E ok2 \in BOOLEAN, a \in CpuReadings :
        LET ok == aggr /\ ok2 IN
        /\ lastAggr' = [ok |-> ok, a |-> IF ok THEN a ELSE NoAggr]
        /\ cpuload' = cpuload_of(ok, a)
  /\ cpuWrites' = cpuWrites + 1
  /\ upc' = "done"
  /\ cached_time' = 0
  /\ UNCHANGED <<nodeCfg, envVars, facadeVars, pairVars, cached_busy, clock,
                 locals, ghosts, aggr, slept, updates, cpuBefore, infoVars>>

\* node.rs:248-263: after the sleep, done(), the percentage and the store.
update_cpuload_finish ==
  /\ upc = "sleep"
  /\ slept >= SleepTicks
  /\ \E ok2 \in BOOLEAN, a \in CpuReadings :
        LET ok == aggr /\ ok2 IN
        /\ lastAggr' = [ok |-> ok, a |-> IF ok THEN a ELSE NoAggr]
        /\ cpuload' = cpuload_of(ok, a)
  /\ cpuWrites' = cpuWrites + 1
  /\ upc' = "done"
  /\ UNCHANGED <<nodeCfg, envVars, facadeVars, pairVars, cache, clock, locals,
                 ghosts, aggr, slept, updates, cpuBefore, infoVars>>

\* The task is dropped while it is suspended in tokio::time::sleep
\* (node.rs:247), the only await point of update_cpuload.
update_cpuload_abandon ==
  /\ upc = "sleep"
  /\ upc' = "abandoned"
  /\ UNCHANGED <<nodeCfg, envVars, facadeVars, pairVars, cpuload, cache, clock,
                 locals, ghosts, aggr, slept, updates, cpuBefore, cpuWrites,
                 lastAggr, infoVars>>

\* ------------------------------------------------------------- NodeInfo
\* enum NodeStatus, node.rs:373-377
Running(c) == [tag |-> "running", c |-> c, msg |-> ""]
Stop == [tag |-> "stop", c |-> 0, msg |-> ""]
Error(m) == [tag |-> "error", c |-> 0, msg |-> m]

\* struct NodeInfo, node.rs:295-318.  l = <<load1, load5, load15>>,
\* m = <<memory_total, memory_used, memory_free>>, d = <<disk_total, disk_free>>;
\* the identity fields follow the node id.
MkInfo(nid, l, m, d, st) ==
  [ connections |-> 3 * nid,
    boottime |-> <<"2024-01-01", "2024-02-02">>[nid],
    load1 |-> l[1], load5 |-> l[2], load15 |-> l[3],
    memory_total |-> m[1], memory_used |-> m[2], memory_free |-> m[3],
    disk_total |-> d[1], disk_free |-> d[2],
    node_status |-> st,
    node_id |-> nid,
    node_name |-> <<"1@127.0.0.1", "2@127.0.0.1">>[nid],
    uptime |-> <<"0 days 0 hours, 1 minutes, 1 seconds",
                 "1 days 1 hours, 1 minutes, 1 seconds">>[nid],
    version |-> <<"rmqtt/0.8.0", "rmqtt/0.9.0">>[nid],
    rustc_version |-> <<"1.75.0", "1.76.0">>[nid] ]

LoadTriples == {<<0, 0, 0>>, <<100, 200, 300>>}
MemTriples == {<<0, 0, 0>>, <<8, 5, 3>>}
DiskPairs == {<<0, 0>>, <<50, 20>>}
Statuses == {Running(1), Running(2), Stop, Error("database unreachable")}
Infos(nid) == {MkInfo(nid, l, m, d, st) :
                l \in LoadTriples, m \in MemTriples, d \in DiskPairs, st \in Statuses}

\* NodeStatus::running, node.rs:381-387
running(st) == IF st.tag = "running" THEN st.c ELSE 0

\* An is_running that counts every status but Stop as running.
is_running_unless_stop(st) == st.tag # "stop"

\* NodeStatus::is_running, node.rs:389-392
is_running(st) == st.tag = "running"

\* The match without its third arm: a Running `other` is lost when self is not Running.
add_status_left_only(s1, s2) ==
  LET c == IF s1.tag = "running" /\ s2.tag = "running" THEN s1.c + s2.c
           ELSE IF s1.tag = "running" THEN s1.c
           ELSE 0
  IN Running(c)

\* The match with a last arm that leaves a non-Running accumulator as it is.
add_status_keeps_stop(s1, s2) ==
  IF s1.tag = "running" /\ s2.tag = "running" THEN Running(s1.c + s2.c)
  ELSE IF s1.tag = "running" THEN Running(s1.c)
  ELSE IF s2.tag = "running" THEN Running(s2.c)
  ELSE s1

\* node.rs:359-366, the match on (&self.node_status, &other.node_status)
add_status(s1, s2) ==
  LET c == IF s1.tag = "running" /\ s2.tag = "running" THEN s1.c + s2.c
           ELSE IF s1.tag = "running" THEN s1.c
           ELSE IF s2.tag = "running" THEN s2.c
           ELSE 0
  IN Running(c)

\* add that takes the other snapshot's load15 instead of summing it.
add_last_load15(self, o) ==
  [self EXCEPT !.load1 = @ + o.load1,
               !.load5 = @ + o.load5,
               !.load15 = o.load15,
               !.memory_total = @ + o.memory_total,
               !.memory_used = @ + o.memory_used,
               !.memory_free = @ + o.memory_free,
               !.disk_total = @ + o.disk_total,
               !.disk_free = @ + o.disk_free,
               !.node_status = add_status(self.node_status, o.node_status)]

\* add that forgets memory_free and takes over the other node's id.
add_wrong_fields(self, o) ==
  [self EXCEPT !.load1 = @ + o.load1,
               !.load5 = @ + o.load5,
               !.load15 = @ + o.load15,
               !.memory_total = @ + o.memory_total,
               !.memory_used = @ + o.memory_used,
               !.disk_total = @ + o.disk_total,
               !.disk_free = @ + o.disk_free,
               !.node_id = o.node_id,
               !.node_status = add_status(self.node_status, o.node_status)]

\* NodeInfo::add, node.rs:350-368
add(self, o) ==
  [self EXCEPT !.load1 = @ + o.load1,
               !.load5 = @ + o.load5,
               !.load15 = @ + o.load15,
               !.memory_total = @ + o.memory_total,
               !.memory_used = @ + o.memory_used,
               !.memory_free = @ + o.memory_free,
               !.disk_total = @ + o.disk_total,
               !.disk_free = @ + o.disk_free,
               !.node_status = add_status(self.node_status, o.node_status)]

InitInfo ==
  /\ acc \in Infos(1)
  /\ other \in Infos(2)
  /\ pre = acc
  /\ folds = 0
  /\ base = acc
  /\ window = <<>>
  /\ runSum = running(acc.node_status)

\* The caller obtains the next node's snapshot to fold in, once the one at
\* hand has been folded.
next_snapshot ==
  /\ folds < MaxFolds
  /\ folds > 0 /\ other = window[Len(window)]
  /\ other' \in Infos(2)
  /\ other' # other
  /\ UNCHANGED <<nodeCfg, envVars, facadeVars, pairVars, cpuload, cache, clock,
                 locals, ghosts, updVars, acc, pre, folds, base, window,
                 runSum>>

\* acc.add(&other)
NodeInfo_add ==
  /\ folds < MaxFolds
  /\ pre' = acc
  /\ acc' = add(acc, other)
  /\ folds' = folds + 1
  /\ base' = IF Len(window) = 2 THEN add(base, window[1]) ELSE base
  /\ window' = IF Len(window) = 2 THEN <<window[2], other>> ELSE Append(window, other)
  /\ runSum' = runSum + running(other.node_status)
  /\ UNCHANGED <<nodeCfg, envVars, facadeVars, pairVars, cpuload, cache, clock,
                 locals, ghosts, updVars, other>>

\* --------------------------------------------------------------- facade
\* health_status().await, node.rs:126: Ok(status) with its `running` flag, or
\* Err(e) with the text e.to_string() gives.
ProbeAnswers ==
  {[ok |-> TRUE, running |-> r, msg |-> ""] : r \in BOOLEAN} \cup
  {[ok |-> FALSE, running |-> FALSE, msg |-> m] : m \in {"database unreachable", "timeout"}}
NoAnswer == [ok |-> FALSE, running |-> FALSE, msg |-> "(no call yet)"]

\* status() that answers a failed probe with the status it returned last.
status_of_stale(h) ==
  IF h.ok THEN IF h.running THEN Running(1) ELSE Stop
  ELSE status_r

\* Node::status, node.rs:126-136, on the probe's answer h.
status_of(h) ==
  IF h.ok THEN IF h.running THEN Running(1) ELSE Stop
  ELSE Error(h.msg)

\* Rust's `%` on i64: the remainder has the sign of the dividend.
TruncRem(p, q) == p - q * TruncDiv(p, q)

\* node.rs:410, the format! of the four components.
format_uptime(days, hours, minus, secs) ==
  ToString(days) \o " days " \o ToString(hours) \o " hours, " \o
  ToString(minus) \o " minutes, " \o ToString(secs) \o " seconds"

\* to_uptime, node.rs:403-411
to_uptime(uptime) ==
  LET uptime_secs == TruncRem(uptime, 60)
      uptime1 == TruncDiv(uptime, 60)
      uptime_minus == TruncRem(uptime1, 60)
      uptime2 == TruncDiv(uptime1, 60)
      uptime_hours == TruncRem(uptime2, 24)
      uptime_days == TruncDiv(uptime2, 24)
  IN format_uptime(uptime_days, uptime_hours, uptime_minus, uptime_secs)

\* (chrono::Local::now() - self.start_time).num_seconds(), node.rs:141: the
\* wall clock may be set back below start_time.
Elapsed == {-90061, -1, 0, 59, 3600, 90061}
WallClocks == {StartSecs + e : e \in Elapsed}

\* struct BrokerInfo, node.rs:268-277, as broker_info fills it (node.rs:146-156).
MkBroker(nid, st, up, dt) ==
  [ version |-> <<"rmqtt/0.8.0", "rmqtt/0.9.0">>[nid],
    rustc_version |-> <<"1.75.0", "1.76.0">>[nid],
    uptime |-> up,
    sysdescr |-> "RMQTT Broker",
    node_status |-> st,
    node_id |-> nid,
    node_name |-> <<"1@127.0.0.1", "2@127.0.0.1">>[nid],
    datetime |-> dt ]

\* NodeInfo::to_json, node.rs:322-347: the keys the json! literal lists.
NodeInfo_to_json(i) ==
  [ connections |-> i.connections,
    boottime |-> i.boottime,
    load1 |-> i.load1, load5 |-> i.load5, load15 |-> i.load15,
    memory_total |-> i.memory_total, memory_used |-> i.memory_used,
    memory_free |-> i.memory_free,
    disk_total |-> i.disk_total, disk_free |-> i.disk_free,
    running |-> is_running(i.node_status),
    node_id |-> i.node_id,
    node_name |-> i.node_name,
    uptime |-> i.uptime,
    version |-> i.version,
    rustc_version |-> i.rustc_version ]

\* BrokerInfo::to_json, node.rs:280-291
BrokerInfo_to_json(b) ==
  [ version |-> b.version,
    rustc_version |-> b.rustc_version,
    uptime |-> b.uptime,
    sysdescr |-> b.sysdescr,
    running |-> is_running(b.node_status),
    node_id |-> b.node_id,
    node_name |-> b.node_name,
    datetime |-> b.datetime ]

\* #[derive(Deserialize)] on NodeInfo (node.rs:294) and BrokerInfo
\* (node.rs:267): every field of the struct is read from the key of its
\* name, a missing key is an error, keys that name no field are ignored.
from_json(fields, j) ==
  IF fields \subseteq DOMAIN j
  THEN [ok |-> TRUE, v |-> [f \in fields |-> j[f]]]
  ELSE [ok |-> FALSE, v |-> [f \in fields \cap DOMAIN j |-> j[f]]]

NoInfo == [kind |-> "none", v |-> [node_status |-> Stop]]
NoJson == [kind |-> "none", v |-> [running |-> FALSE]]

\* The environment before any facade call.
EnvIdle ==
  /\ probe = [ok |-> TRUE, running |-> TRUE, msg |-> ""]
  /\ sensors = TRUE
  /\ wall = StartSecs

InitEnv ==
  /\ probe \in ProbeAnswers
  /\ sensors \in BOOLEAN
  /\ wall \in WallClocks

InitFacade ==
  /\ status_r = Stop
  /\ prev_r = Stop
  /\ asked = NoAnswer
  /\ info = NoInfo
  /\ json = NoJson
  /\ upSecs = 0
  /\ upText = to_uptime(0)

\* The health probe's answer changes.
probe_changes ==
  /\ probe' \in ProbeAnswers \ {probe}
  /\ UNCHANGED <<nodeCfg, cpuload, cache, clock, locals, ghosts, pairVars,
                 updVars, infoVars, sensors, wall, facadeVars>>

\* The platform sensors start or stop answering.
sensors_change ==
  /\ sensors' = ~sensors
  /\ UNCHANGED <<nodeCfg, cpuload, cache, clock, locals, ghosts, pairVars,
                 updVars, infoVars, probe, wall, facadeVars>>

\* Wall-clock time passes, or the system clock is set.
wall_changes ==
  /\ wall' \in WallClocks \ {wall}
  /\ UNCHANGED <<nodeCfg, cpuload, cache, clock, locals, ghosts, pairVars,
                 updVars, infoVars, probe, sensors, facadeVars>>

\* Node::status, node.rs:125-137
Node_status ==
  /\ status_r' = status_of(probe)
  /\ prev_r' = status_r
  /\ asked' = probe
  /\ UNCHANGED <<nodeCfg, cpuload, cache, clock, locals, ghosts, pairVars,
                 updVars, infoVars, envVars, info, json, upSecs, upText>>

\* Node::node_info, node.rs:159-197, with its calls of status and uptime.
Node_node_info ==
  LET l == IF sensors THEN <<100, 200, 300>> ELSE <<0, 0, 0>>
      m == IF sensors THEN <<8, 5, 3>> ELSE <<0, 0, 0>>
      d == IF sensors THEN <<50, 20>> ELSE <<0, 0>>
  IN
  /\ status_r' = status_of(probe)
  /\ prev_r' = status_r
  /\ asked' = probe
  /\ upSecs' = wall - start_time
  /\ upText' = to_uptime(wall - start_time)
  /\ info' = [kind |-> "node",
              v |-> [MkInfo(id, l, m, d, status_of(probe)) EXCEPT
                       !.uptime = to_uptime(wall - start_time)]]
  /\ json' = NoJson
  /\ UNCHANGED <<nodeCfg, cpuload, cache, clock, locals, ghosts, pairVars,
                 updVars, infoVars, envVars>>

\* Node::broker_info, node.rs:144-157, with its calls of status and uptime.
Node_broker_info ==
  /\ status_r' = status_of(probe)
  /\ prev_r' = status_r
  /\ asked' = probe
  /\ upSecs' = wall - start_time
  /\ upText' = to_uptime(wall - start_time)
  /\ info' = [kind |-> "broker",
              v |-> MkBroker(id, status_of(probe), to_uptime(wall - start_time),
                             ToString(wall))]
  /\ json' = NoJson
  /\ UNCHANGED <<nodeCfg, cpuload, cache, clock, locals, ghosts, pairVars,
                 updVars, infoVars, envVars>>

\* info.to_json() on the snapshot built last.
to_json ==
  /\ info.kind # "none"
  /\ json' = [kind |-> info.kind,
              v |-> IF info.kind = "node" THEN NodeInfo_to_json(info.v)
                    ELSE BrokerInfo_to_json(info.v)]
  /\ UNCHANGED <<nodeCfg, cpuload, cache, clock, locals, ghosts, pairVars,
                 updVars, infoVars, envVars, status_r, prev_r, asked, info,
                 upSecs, upText>>

\* ------------------------------------------------------- specifications
InfoIdle ==
  /\ acc = MkInfo(1, <<0, 0, 0>>, <<0, 0, 0>>, <<0, 0>>, Stop)
  /\ other = acc
  /\ pre = acc
  /\ folds = 0
  /\ base = acc
  /\ window = <<>>
  /\ runSum = 0

\* Node::default, node.rs:54-58: thresholds 80.0 and 90.0, on one core.
DefaultNode ==
  /\ id = NodeId
  /\ start_time = StartSecs
  /\ max_busy_loadavg = normalized_loadavg(80, 1)
  /\ max_busy_cpuloadavg = 90 * Scale
  /\ cpuload = I64(0)
  /\ cached_busy = FALSE
  /\ cached_time = 0
  /\ InitCalls

NodeIdle == DefaultNode /\ busy_update_interval = 2

\* One sys_is_busy caller at a time, racing the update_cpuload task.
Init == InitNode /\ InitUpd /\ InfoIdle /\ EnvIdle /\ InitFacade

Next ==
  \/ sys_is_busy_now(1)
  \/ sys_is_busy_load_time(1)
  \/ sys_is_busy_hit(1)
  \/ is_busy_load_cpu(1)
  \/ is_busy_sensor(1)
  \/ sys_is_busy_store_busy(1)
  \/ sys_is_busy_store_time(1)
  \/ update_cpuload_begin
  \/ update_cpuload_finish
  \/ update_cpuload_abandon
  \/ Tick

Spec == Init /\ [][Next]_vars

\* Concurrent sys_is_busy callers on one Node.
NextRace ==
  \/ \E t \in Threads : sys_is_busy_now(t)
  \/ \E t \in Threads : sys_is_busy_load_time(t)
  \/ \E t \in Threads : sys_is_busy_hit(t)
  \/ \E t \in Threads : is_busy_load_cpu(t)
  \/ \E t \in Threads : is_busy_sensor(t)
  \/ \E t \in Threads : sys_is_busy_store_busy(t)
  \/ \E t \in Threads : sys_is_busy_store_time(t)
  \/ Tick

InitRace == DefaultNode /\ busy_update_interval \in Intervals /\ InitUpd /\ InfoIdle
            /\ EnvIdle /\ InitFacade

SpecRace == InitRace /\ [][NextRace]_vars

\* The aggregation of NodeInfo snapshots.
InitAgg == NodeIdle /\ InitUpd /\ InitInfo /\ EnvIdle /\ InitFacade

NextAgg == next_snapshot \/ NodeInfo_add

SpecInfo == InitAgg /\ [][NextAgg]_vars

\* Every operation of one Node: a sys_is_busy caller, the update_cpuload
\* task and the facade calls.
InitFrame ==
  /\ InitNode
  /\ max_busy_loadavg > 0
  /\ max_busy_cpuloadavg = 90 * Scale
  /\ busy_update_interval = 2
  /\ InitUpd /\ InfoIdle /\ EnvIdle /\ InitFacade

NextFrame ==
  \/ Next
  \/ Node_status
  \/ Node_node_info
  \/ Node_broker_info

SpecFrame == InitFrame /\ [][NextFrame]_vars

\* The facade: status, node_info, broker_info and to_json in a changing
\* environment.
InitQuery == NodeIdle /\ InitUpd /\ InfoIdle /\ InitEnv /\ InitFacade

NextQuery ==
  \/ probe_changes
  \/ sensors_change
  \/ wall_changes
  \/ Node_status
  \/ Node_node_info
  \/ Node_broker_info
  \/ to_json

SpecFacade == InitQuery /\ [][NextQuery]_vars

\* ================================================================ claims

\* f32 `x > y` written out for a cpuload() value x and a finite threshold y.
ExceedsCpu(x) == x.k = "max" \/ (x.k = "val" /\ x.v > max_busy_cpuloadavg)

\* C1: whenever sys_is_busy recomputes, the flag it computes and returns is
\* true exactly when load1 > max_busy_loadavg or cpuload > max_busy_cpuloadavg,
\* both comparisons strict, for the values the call read.
C1_BusyIff ==
  \A t \in Threads :
    /\ pc[t] \in {"store_busy", "store_time"} =>
          (busy[t] <=> (load1[t] > max_busy_loadavg \/ ExceedsCpu(cpu_l[t])))
    /\ (pc[t] = "done" /\ reads[t] = 1) =>
          (ret[t] <=> (load1[t] > max_busy_loadavg \/ ExceedsCpu(cpu_l[t])))

\* A recomputation that read both signals exactly at their thresholds
\* returned "not busy".
C1_Witness ==
  \E t \in Threads :
    /\ pc[t] = "done" /\ reads[t] = 1
    /\ load1[t] = max_busy_loadavg
    /\ cpu_l[t] = I64(max_busy_cpuloadavg)
    /\ ~ret[t]

C3_MissRecomputes ==
  [][\A t \in Threads :
        /\ (pc[t] = "load_time" /\ now[t] - cached_time >= busy_update_interval) =>
              pc'[t] # "hit"
        /\ (pc[t] = "load_time" /\ pc'[t] = "miss") =>
              now[t] - cached_time >= busy_update_interval
        /\ (pc[t] = "store_time" /\ pc'[t] = "done") =>
              /\ reads[t] = 1
              /\ ret'[t] = busy[t]
              /\ cached_time' = now[t]
              /\ (~conc[t] => cached_busy' = ret'[t])]_vars

\* An undisturbed call on the boundary now - cached_time = interval has
\* recomputed TRUE and left it, with its `now`, in the cache.
C3_Witness ==
  \E t \in Threads :
    /\ pc[t] = "done" /\ reads[t] = 1 /\ ~conc[t]
    /\ now[t] - last_update[t] = busy_update_interval
    /\ cached_time = now[t]
    /\ ret[t] /\ cached_busy

\* C4 (as stated): one expiry of the staleness window triggers at most one
\* sensor read, whatever the interleaving.
C4_SingleFlight == winComputes <= 1

\* C4 (as amended): every call that observes the expired window reads the
\* sensor exactly once and a call that hits reads it not at all, so one
\* expiry triggers at most one computation per concurrent caller.
C4_OnePerCaller ==
  /\ winComputes <= NThreads
  /\ \A t \in Threads :
        /\ pc[t] \in {"store_busy", "store_time"} => reads[t] = 1
        /\ pc[t] \in {"load_time", "hit", "miss", "sensor"} => reads[t] = 0
        /\ reads[t] <= 1

\* Two callers have both recomputed for the same expiry.
C4_Witness ==
  /\ winComputes = 2
  /\ \E t, u \in Threads : t # u /\ pc[t] = "store_busy" /\ pc[u] = "store_busy"

\* C5: the boolean a call returns was computed from a sensor sample taken no
\* more than busy_update_interval before the call read `now`.
C5_BoundedStaleness ==
  [][\A t \in Threads :
        /\ (pc[t] = "hit" /\ pc'[t] = "done") =>
              now[t] - busyAt <= busy_update_interval
        /\ (pc[t] = "store_time" /\ pc'[t] = "done") =>
              now[t] - sampleAt[t] <= busy_update_interval]_vars

\* C6: the stored CPU load is written at most once per update_cpuload
\* invocation and only by its final step: while the window is in flight, and
\* after the task is abandoned in the window, it is what it was before the
\* invocation began.
C6_StoreOnlyAtEnd ==
  /\ upc \in {"sleep", "abandoned"} => (cpuload = cpuBefore /\ cpuWrites = 0)
  /\ upc = "done" => cpuWrites = 1
  /\ cpuWrites <= 1

\* An invocation was abandoned while a busy recomputation was reading the
\* stored value, which an earlier invocation had set to a non-zero load.
C6_Witness ==
  /\ upc = "abandoned"
  /\ updates = 2
  /\ cpuBefore # I64(0)
  /\ cpuload = cpuBefore
  /\ pc[1] = "sensor" /\ cpu_l[1] = Node_cpuload

\* C7: when the initial or the final aggregate read fails, update_cpuload
\* completes and stores 0, and a busy recomputation that reads 0 decides on
\* the load average alone.
C7_FailureStoresZero ==
  /\ (upc = "done" /\ ~lastAggr.ok) => cpuload = I64(0)
  /\ \A t \in Threads :
        (pc[t] \in {"store_busy", "store_time"} /\ cpu_l[t] = I64(0)) =>
           (busy[t] <=> load1[t] > max_busy_loadavg)

\* The final read failed, update_cpuload completed with its one store, of 0,
\* and the next recomputation came out busy on the load average.
C7_Witness ==
  /\ upc = "done" /\ aggr /\ ~lastAggr.ok
  /\ cpuWrites = 1
  /\ cpuload = I64(0)
  /\ pc[1] = "store_time" /\ cpu_l[1] = I64(0) /\ busy[1]

\* C8: when total_time = busy_time + idle is non-positive the percentage is
\* computed as if total_time were 1, and total_time = 0 stores 0.
C8_GuardedRatio ==
  (upc = "done" /\ lastAggr.ok) =>
    LET a == lastAggr.a
        busy_time == a.user + a.nice + a.system + a.interrupt
        total_time == busy_time + a.idle
    IN /\ total_time <= 0 => cpuload = I64(busy_time * CpuScale)
       /\ total_time = 0 => cpuload = I64(0)

\* The nine pairings of the status variants, as the claim lists them.
NotRunning(st) == st.tag \in {"stop", "error"}
CombinedStatus(s1, s2) ==
  CASE s1.tag = "running" /\ s2.tag = "running" -> Running(s1.c + s2.c)
    [] s1.tag = "running" /\ NotRunning(s2) -> Running(s1.c)
    [] NotRunning(s1) /\ s2.tag = "running" -> Running(s2.c)
    [] NotRunning(s1) /\ NotRunning(s2) -> Running(0)

\* C9: add combines node_status over all nine pairings: Running with Running
\* sums the counts, exactly one Running side keeps its count whichever side
\* it is on, and neither side Running gives Running(0).
C9_StatusCombination ==
  [][folds' = folds + 1 =>
        /\ acc'.node_status = CombinedStatus(acc.node_status, other.node_status)
        /\ acc'.node_status.tag = "running"]_vars

\* An Error accumulator absorbed a Stop snapshot and became Running(0).
C9_Witness ==
  /\ folds > 0
  /\ pre.node_status.tag = "error"
  /\ other.node_status.tag = "stop"
  /\ acc.node_status = Running(0)

\* C10: add replaces the eight resource fields of the accumulator by their
\* sums with the other snapshot's fields and leaves the accumulator's
\* identity fields, boottime and connections, and the other snapshot, unchanged.
C10_SumsAndFrame ==
  [][folds' = folds + 1 =>
        /\ acc'.load1 = acc.load1 + other.load1
        /\ acc'.load5 = acc.load5 + other.load5
        /\ acc'.load15 = acc.load15 + other.load15
        /\ acc'.memory_total = acc.memory_total + other.memory_total
        /\ acc'.memory_used = acc.memory_used + other.memory_used
        /\ acc'.memory_free = acc.memory_free + other.memory_free
        /\ acc'.disk_total = acc.disk_total + other.disk_total
        /\ acc'.disk_free = acc.disk_free + other.disk_free
        /\ acc'.node_id = acc.node_id
        /\ acc'.node_name = acc.node_name
        /\ acc'.uptime = acc.uptime
        /\ acc'.version = acc.version
        /\ acc'.rustc_version = acc.rustc_version
        /\ acc'.boottime = acc.boottime
        /\ acc'.connections = acc.connections
        /\ other' = other]_vars

\* A snapshot with non-zero resources from another node was folded in.
C10_Witness ==
  /\ folds > 0
  /\ other.memory_free > 0 /\ other.load1 > 0 /\ other.disk_free > 0
  /\ acc.memory_free = pre.memory_free + other.memory_free
  /\ acc.node_id = pre.node_id
  /\ acc.node_id # other.node_id
  /\ acc.node_name # other.node_name

\* The numeric components of a snapshot: the eight resource fields and the
\* Running count.
Numeric(i) == <<i.load1, i.load5, i.load15, i.memory_total, i.memory_used,
                i.memory_free, i.disk_total, i.disk_free, running(i.node_status)>>

\* Every result of folding the snapshots s[i], i \in I, with add: each
\* order of the operands and each grouping of the additions.
RECURSIVE Foldings(_, _)
Foldings(s, I) ==
  IF Cardinality(I) = 1
  THEN {s[i] : i \in I}
  ELSE UNION { {add(x, y) : x \in Foldings(s, J), y \in Foldings(s, I \ J)} :
                 J \in (SUBSET I) \ {{}, I} }

\* The accumulator the last two folds started from and what they folded in.
Operands == <<base>> \o window

\* C11: folding the same snapshots with add in any order and any grouping
\* gives the resource sums and the Running count the accumulator holds.
C11_OrderAndGrouping ==
  \A r \in Foldings(Operands, 1..Len(Operands)) : Numeric(r) = Numeric(acc)

\* Three snapshots with different resources and statuses were folded; the
\* foldings differ in their identity fields only.
C11_Witness ==
  /\ folds = 2
  /\ base.node_status = Stop /\ base.load1 > 0
  /\ window[1].node_status = Running(2) /\ window[1].memory_used > 0
  /\ window[2].node_status.tag = "error" /\ window[2].load1 = 0
  /\ acc.node_status = Running(2)
  /\ Cardinality(Foldings(Operands, 1..3)) > 1
  /\ Cardinality({Numeric(r) : r \in Foldings(Operands, 1..3)}) = 1

\* C19: once add has been applied, the accumulator's node_status is
\* Running(k), k the sum of the Running counts of its initial status and of
\* every snapshot folded in; it is never Stop or Error again and reports
\* running = true, also when k = 0.
C19_AggregateAlwaysRunning ==
  folds > 0 =>
    /\ acc.node_status = Running(runSum)
    /\ acc.node_status \notin {Stop} \cup {Error(m) : m \in {st.msg : st \in Statuses}}
    /\ is_running(acc.node_status)

\* A Stop accumulator absorbed an Error and a Stop snapshot: the aggregate
\* is Running(0) and reports running = true.
C19_Witness ==
  /\ folds = 2
  /\ base.node_status = Stop
  /\ window[1].node_status.tag = "error"
  /\ window[2].node_status = Stop
  /\ runSum = 0
  /\ acc.node_status = Running(0)
  /\ is_running(acc.node_status)

\* C12: every status() result is the image of the probe's answer at that
\* call: running gives Running(1), not running gives Stop, an error gives
\* Error with the probe's message, whatever status() returned before.
C12_StatusFromProbe ==
  asked # NoAnswer =>
    /\ (asked.ok /\ asked.running) => status_r = Running(1)
    /\ (asked.ok /\ ~asked.running) => status_r = Stop
    /\ ~asked.ok => status_r = Error(asked.msg)
    /\ info.kind # "none" => info.v.node_status \in {Running(1), Stop} \cup
                               {Error(h.msg) : h \in {a \in ProbeAnswers : ~a.ok}}

\* During a probe outage status() returned Error with the probe's message
\* although the call before it had returned Running(1).
C12_Witness ==
  /\ prev_r = Running(1)
  /\ asked = [ok |-> FALSE, running |-> FALSE, msg |-> "database unreachable"]
  /\ probe = asked
  /\ status_r = Error("database unreachable")

\* C13: the serialized `running` of a NodeInfo and of a BrokerInfo is true
\* exactly for the Running variant; Stop and Error serialize running = false.
C13_RunningFlag ==
  json.kind # "none" =>
    /\ "running" \in DOMAIN json.v
    /\ json.v.running <=> info.v.node_status.tag = "running"
    /\ info.v.node_status.tag \in {"stop", "error"} => json.v.running = FALSE

\* The probe failed with "database unreachable" and the NodeInfo built then
\* serialized with running = false.
C13_Witness ==
  /\ json.kind = "node"
  /\ asked.msg = "database unreachable"
  /\ info.v.node_status = Error("database unreachable")
  /\ json.v.running = FALSE

\* C14: parsing the to_json value of a NodeInfo or BrokerInfo back recovers
\* every field, node_status included, the datetime excepted.
C14_RoundTrip ==
  json.kind # "none" =>
    LET fields == DOMAIN info.v
        parsed == from_json(fields, json.v)
    IN /\ parsed.ok
       /\ \A f \in fields \ {"datetime"} : parsed.v[f] = info.v[f]

\* The components the claim defines, by floor division.
FloorParts(s) == [days |-> s \div 86400, hours |-> (s \div 3600) % 24,
                  minutes |-> (s \div 60) % 60, secs |-> s % 60]

\* C15: to_uptime(s) renders D = floor(s/86400), H = floor(s/3600) mod 24,
\* M = floor(s/60) mod 60, S = s mod 60, which lie in their ranges and add up
\* to s; 90061 renders "1 days 1 hours, 1 minutes, 1 seconds".
C15_UptimeComponents ==
  info.kind # "none" =>
    LET c == FloorParts(upSecs) IN
    /\ upText = format_uptime(c.days, c.hours, c.minutes, c.secs)
    /\ info.v.uptime = upText
    /\ 0 <= c.secs /\ c.secs < 60 /\ 0 <= c.minutes /\ c.minutes < 60
    /\ 0 <= c.hours /\ c.hours < 24
    /\ c.days * 86400 + c.hours * 3600 + c.minutes * 60 + c.secs = upSecs
    /\ upSecs = 90061 => upText = "1 days 1 hours, 1 minutes, 1 seconds"

\* C16: no step changes id, start_time, the two thresholds or
\* busy_update_interval, and max_busy_loadavg is a configured percentage
\* times the core count over 100; a sys_is_busy step (its cpuload() read
\* included) leaves cpuload alone, an update_cpuload step leaves cached_busy
\* and cached_time alone, and status, node_info and broker_info leave all
\* three alone.
C16_Frame ==
  [][/\ nodeCfg' = nodeCfg
     /\ \E p \in LoadPercents, n \in CpuCounts :
           max_busy_loadavg' = (p * Scale * n) \div 100
     /\ pc' # pc => cpuload' = cpuload
     /\ (pc[1] = "miss" /\ pc'[1] = "sensor") => cache' = cache
     /\ upc' # upc => cache' = cache
     /\ facadeVars' # facadeVars => (cpuload' = cpuload /\ cache' = cache)]_vars

\* node_info ran while the cache and the stored CPU load held values written
\* by sys_is_busy and update_cpuload, and a sys_is_busy call was in flight.
C16_Witness ==
  /\ info.kind = "node"
  /\ cached_time > 0 /\ cached_busy
  /\ cpuload # I64(0)
  /\ upc = "sleep"
  /\ pc[1] = "sensor"
  /\ id = NodeId /\ start_time = StartSecs

\* C17: a recomputation whose load-average read failed takes load1 as 0 and
\* completes; the flag it returns and leaves in the cache is
\* cpuload > max_busy_cpuloadavg, the load threshold being non-negative, and
\* a later call inside the staleness window returns that cached flag.
C17_SensorFailure ==
  \A t \in Threads :
    ~loadavg[t].ok =>
      /\ load1[t] = 0
      /\ max_busy_loadavg >= 0
      /\ pc[t] \in {"store_busy", "store_time"} => (busy[t] <=> ExceedsCpu(cpu_l[t]))
      /\ (pc[t] = "done" /\ reads[t] = 1) =>
            (ret[t] <=> ExceedsCpu(cpu_l[t])) /\ cached_busy = ret[t]
      /\ (pc[t] = "done" /\ reads[t] = 0) =>
            ret[t] = busy[t] /\ cached_busy = busy[t] /\ (busy[t] <=> ExceedsCpu(cpu_l[t]))

\* After a recomputation whose sensor read failed had cached "busy" on the
\* CPU load alone, the next call fell inside the window and returned it.
C17_Witness ==
  /\ pc[1] = "done" /\ reads[1] = 0
  /\ ~loadavg[1].ok
  /\ now[1] - last_update[1] < busy_update_interval
  /\ busy[1] /\ ret[1] /\ cached_busy
  /\ load1[1] = 0

\* The counter deltas of a window, none of them negative.
NonNegative(a) ==
  a.user >= 0 /\ a.nice >= 0 /\ a.system >= 0 /\ a.interrupt >= 0 /\ a.idle >= 0

\* C18: while the deltas of the window measured last are non-negative the
\* stored CPU load lies in 0..10000 and cpuload() returns 0.0 to 100.0, in
\* the initial state and after successful and failed update_cpuload runs.
C18_CpuloadRange ==
  NonNegative(lastAggr.a) =>
    /\ cpuload.k = "val"
    /\ 0 <= cpuload.v /\ cpuload.v <= CpuScale
    /\ Node_cpuload.k = "val"
    /\ 0 <= Node_cpuload.v /\ Node_cpuload.v <= 100 * Scale

\* A fully busy window stored 10000 and a concurrent reader got 100.0.
C18_Witness ==
  /\ upc = "done" /\ lastAggr.ok
  /\ lastAggr.a = CPULoad(1, 1, 1, 1, 0)
  /\ cpuload = I64(CpuScale)
  /\ pc[1] = "sensor" /\ cpu_l[1] = I64(100 * Scale)

\* C20: a call that takes the cache-hit path returns a cached_busy stored by
\* the recomputation that stored the cached_time the call loaded.
C20_ConsistentPair ==
  [][\A t \in Threads : (pc[t] = "hit" /\ pc'[t] = "done") => seenPaired[t]]_vars

====
